---------------------------- MODULE Spec2Model ----------------------------
(***************************************************************************)
(* Model of plan/optimizer.go: the optimization entry point Optimize, the  *)
(* process-wide toggle UseNewPlanner it reads, the optimizer error codes   *)
(* and the table that init() installs for them.                            *)
(*                                                                         *)
(* Several calls of Optimize run concurrently (one goroutine each).  A     *)
(* call is a sequence of steps, one per call site of Optimize; pc[c] is    *)
(* the source line the call c is about to execute.  The collaborators      *)
(* (InferType, logicOptimize, the plan builder, the rewrite passes, the    *)
(* enumerator, Refine) are outside this file: what they answer is an input *)
(* of the step, drawn from small sets.                                     *)
(***************************************************************************)
EXTENDS Naturals, Sequences, FiniteSets

\* ------------------------------------------------------------------ bounds

\* Largest number of plan nodes the builder allocates in one call.
MaxNodes == 1

\* The calls of Optimize of a run, one goroutine each: they may overlap in any
\* way, or follow one another.
Calls == { "g1", "g2" }

\* ------------------------------------------------- optimizer error codes

CodeOneColumn == 1
CodeSameColumns == 2
CodeMultiWildCard == 3
CodeUnsupported == 4
CodeInvalidGroupFuncUse == 5
CodeIllegalReference == 6

\* The base errors, each built from its code.
ErrCodeOf ==
    [ ErrOneColumn           |-> CodeOneColumn,
      ErrSameColumns         |-> CodeSameColumns,
      ErrMultiWildCard       |-> CodeMultiWildCard,
      ErrUnSupported         |-> CodeUnsupported,
      ErrInvalidGroupFuncUse |-> CodeInvalidGroupFuncUse,
      ErrIllegalReference    |-> CodeIllegalReference ]

Errors == DOMAIN ErrCodeOf

Nil == "nil"

\* The map literal of init(): optimizer error code -> MySQL error code.
mySQLErrCodes ==
    [ code \in { CodeOneColumn, CodeSameColumns, CodeMultiWildCard,
                 CodeInvalidGroupFuncUse, CodeIllegalReference } |->
        CASE code = CodeOneColumn           -> "mysql.ErrOperandColumns"
          [] code = CodeSameColumns         -> "mysql.ErrOperandColumns"
          [] code = CodeMultiWildCard       -> "mysql.ErrParse"
          [] code = CodeInvalidGroupFuncUse -> "mysql.ErrInvalidGroupFuncUse"
          [] code = CodeIllegalReference    -> "mysql.ErrIllegalReference" ]

\* ------------------------------------------------------------------ state

VARIABLES
    UseNewPlanner,          \* the process-wide toggle
    ErrClassToMySQLCodes,   \* terror.ErrClassToMySQLCodes: class -> (code -> MySQL code)
    inited,                 \* init() has run
    idAllocators,           \* heap of idAllocator objects: ref -> last id issued
    colMappers,             \* heap of colMapper maps: ref -> set of [col, ordinal]
    pc,                     \* per call: the line about to execute
    node,                   \* per call: the kind of the statement passed in
    trace,                  \* per call: the collaborator calls made so far, with their answers
    builder,                \* per call: the planBuilder (refs of its allocator and mapper, err)
    p,                      \* per call: local p
    logic,                  \* per call: local logic
    res,                    \* per call: local res.p
    ret,                    \* per call: what Optimize returned
    tgl33,                  \* per call: UseNewPlanner as read at line 33
    tgl48,                  \* per call: UseNewPlanner as read at line 48
    prep                    \* per call: PrepareStmt on its node (line, steps made, result)

vars == << UseNewPlanner, ErrClassToMySQLCodes, inited, idAllocators, colMappers,
           pc, node, trace, builder, p, logic, res, ret, tgl33, tgl48, prep >>

globals == << UseNewPlanner, ErrClassToMySQLCodes, inited >>
heap == << idAllocators, colMappers >>

NodeKinds == { "SelectStmt", "UnionStmt" }

NoBuilder == [ allocator |-> 0, colMapper |-> 0, err |-> Nil ]
NotReturned == [ returned |-> FALSE, plan |-> Nil, err |-> Nil ]
\* The conditions of the statement: the plan the builder produces filters by them.
StmtConds == { "where" }

NotPrepared == [ pc |-> "idle", steps |-> << >>, returned |-> FALSE, err |-> Nil ]

NoPlan == [ ref |-> Nil, logical |-> FALSE, nodes |-> << >>, conds |-> {} ]

Init ==
    /\ UseNewPlanner \in BOOLEAN
    /\ ErrClassToMySQLCodes = [ class \in {} |-> << >> ]
    /\ inited = FALSE
    /\ idAllocators = << >>
    /\ colMappers = << >>
    /\ pc = [ c \in Calls |-> "idle" ]
    /\ node = [ c \in Calls |-> Nil ]
    /\ trace = [ c \in Calls |-> << >> ]
    /\ builder = [ c \in Calls |-> NoBuilder ]
    /\ p = [ c \in Calls |-> NoPlan ]
    /\ logic = [ c \in Calls |-> Nil ]
    /\ res = [ c \in Calls |-> Nil ]
    /\ ret = [ c \in Calls |-> NotReturned ]
    /\ tgl33 = [ c \in Calls |-> {} ]
    /\ tgl48 = [ c \in Calls |-> {} ]
    /\ prep = [ c \in Calls |-> NotPrepared ]


\* ------------------------------------------------- decisions of Optimize

\* The check left out: the call goes on whatever the step answered.
ErrCheck_Swallowed(err, next) == next

\* `if err != nil { return nil, errors.Trace(err) }`: where the call goes after a
\* step that answered err, `next` being the line after the check.
ErrCheck(err, next) == IF err # Nil THEN "return" ELSE next

\* Line 33: `_, ok := node.(*ast.SelectStmt); !ok || !UseNewPlanner`.
NeedLogicOptimize(isSelect, toggle) == ~isSelect \/ ~toggle

\* Line 48: `logic, ok := p.(LogicalPlan); UseNewPlanner && ok`.
TakeNewPipeline(toggle, isLogical) == toggle /\ isLogical

\* The line that follows a line in the straight-line parts of Optimize ("call" is
\* the entry; L45, L49 and L65 are the lines before a block is entered or left).
StraightLine ==
    [ call |-> "L30", L30 |-> "L33", L34 |-> "L38", L38 |-> "L44", L45 |-> "L48",
      L49  |-> "L50", L50 |-> "L54", L54 |-> "L58", L58 |-> "L62", L62 |-> "L64",
      L65  |-> "L66" ]

\* Column pruning placed before predicate pushdown.
NextLine_PruneFirst(line) ==
    [ StraightLine EXCEPT !.L49 = "L54", !.L54 = "L50", !.L50 = "L58" ][line]

\* The `return p, nil` of line 64 left out: the new pipeline falls through to Refine.
NextLine_NoReturn(line) ==
    [ StraightLine EXCEPT !.L62 = "L66" ][line]

\* Type inference left out.
NextLine_NoInferType(line) ==
    [ StraightLine EXCEPT !.call = "L33" ][line]

\* After limit pushdown the pipeline is run again from predicate pushdown.
NextLine_Retry(line) ==
    [ StraightLine EXCEPT !.L62 = "L50" ][line]

NextLine(line) == StraightLine[line]

\* Line 45 left out: the error the builder recorded is not looked at.
BuilderFailed_Unchecked(err) == FALSE

\* Line 45: `builder.err != nil`.
BuilderFailed(err) == err # Nil

\* One allocator of the package handed to every builder.
NewIdAllocator_Shared(allocs) ==
    IF allocs = << >> THEN [ heap |-> << 0 >>, ref |-> 1 ] ELSE [ heap |-> allocs, ref |-> 1 ]

\* One mapper of the package handed to every builder.
MakeColMapper_Shared(maps) ==
    IF maps = << >> THEN [ heap |-> << {} >>, ref |-> 1 ] ELSE [ heap |-> maps, ref |-> 1 ]

\* `new(idAllocator)`: a new object on the heap, its id zero.
NewIdAllocator(allocs) ==
    [ heap |-> Append(allocs, 0), ref |-> Len(allocs) + 1 ]

\* `make(map[*ast.ColumnNameExpr]int)`: a new, empty map on the heap.
MakeColMapper(maps) ==
    [ heap |-> Append(maps, {}), ref |-> Len(maps) + 1 ]

\* Predicates of a caller handed to the pushdown on the root.
InitialPredicates_FromCaller == { "outer" }

\* Line 50: the predicates handed to PredicatePushDown on the root: nil.
InitialPredicates == {}

\* PredicatePushDown: the residuals it may report are those of the incoming
\* predicates that could not be pushed; the sub-plan it returns filters by the
\* plan's own conditions and by the incoming predicates it pushed.
Residuals(incoming) == SUBSET incoming

PushedDown(conds, incoming, residual) == conds \cup (incoming \ residual)

\* Line 50: `_, logic, err = ...`: the residual is dropped; the plan passed on is
\* the sub-plan returned, as it is.
CondsPassedOn(subPlanConds, residual) == subPlanConds

\* builder.build: one root plan node, or a failure recorded in builder.err.
BuildResult(err) == IF err = Nil THEN "built" ELSE Nil

\* idAllocator.allocID: the next id of the allocator, one more than the last.
allocID(last) == last + 1

\* ------------------------------------------------------------- the steps

\* One collaborator call: the step, the object it is called on, its argument, the
\* error it answered and what else it answered.
Entry(step, on, arg, err, out) ==
    [ step |-> step, on |-> on, arg |-> arg, err |-> err, out |-> out ]

Invoke(c, entry) == trace' = [ trace EXCEPT ![c] = Append(@, entry) ]

Return(c, plan, err) ==
    /\ ret' = [ ret EXCEPT ![c] = [ returned |-> TRUE, plan |-> plan, err |-> err ] ]
    /\ pc' = [ pc EXCEPT ![c] = "done" ]

Goto(c, line) ==
    /\ pc' = [ pc EXCEPT ![c] = line ]
    /\ UNCHANGED ret

\* A step that answered err: return (nil, err), or go on at `next`.
Check(c, err, next) ==
    IF ErrCheck(err, next) = "return" THEN Return(c, Nil, err) ELSE Goto(c, ErrCheck(err, next))

\* func init(): installs the table of the optimizer class.
init ==
    /\ ~inited
    /\ inited' = TRUE
    /\ ErrClassToMySQLCodes' =
          [ class \in DOMAIN ErrClassToMySQLCodes \cup { "ClassOptimizer" } |->
              IF class = "ClassOptimizer" THEN mySQLErrCodes ELSE ErrClassToMySQLCodes[class] ]
    /\ UNCHANGED << UseNewPlanner, heap, pc, node, trace, builder, p, logic, res, ret,
                    tgl33, tgl48, prep >>

\* Another goroutine writes the toggle.
SetUseNewPlanner(b) ==
    /\ inited
    /\ b # UseNewPlanner
    /\ UseNewPlanner' = b
    /\ UNCHANGED << ErrClassToMySQLCodes, inited, heap, pc, node, trace, builder, p, logic,
                    res, ret, tgl33, tgl48, prep >>

\* A step that installs a table of its own for the optimizer class.
StepGlobals_Register ==
    /\ ErrClassToMySQLCodes' = [ ErrClassToMySQLCodes EXCEPT !["ClassOptimizer"] = << >> ]
    /\ UNCHANGED << UseNewPlanner, inited >>

\* Lines 28-85: no statement of Optimize or PrepareStmt assigns UseNewPlanner or
\* terror.ErrClassToMySQLCodes; the only assignment to the table is in init().
StepGlobals == UNCHANGED globals

\* ------------------------------------------------------- PrepareStmt

\* Validate placed before Preprocess.
PrepareNext_ValidateFirst(line) ==
    [ L77 |-> "L81", L81 |-> "L78", L78 |-> "L84" ][line]

\* Lines 77-84: the line that follows a line of PrepareStmt when it goes on.
PrepareNext(line) ==
    [ L77 |-> "L78", L78 |-> "L81", L81 |-> "L84" ][line]

PrepareInvoke(c, step, arg, err) ==
    [ prep[c] EXCEPT !.steps = Append(@, [ step |-> step, arg |-> arg, err |-> err ]) ]

\* `if err := ...; err != nil { return errors.Trace(err) }`, and line 84, `return nil`,
\* when the line that follows is the last.
PrepareCheck(called, err, next) ==
    IF ErrCheck(err, next) = "return"
    THEN [ called EXCEPT !.pc = "done", !.returned = TRUE, !.err = err ]
    ELSE IF next = "L84"
         THEN [ called EXCEPT !.pc = "done", !.returned = TRUE, !.err = Nil ]
         ELSE [ called EXCEPT !.pc = next ]

\* Line 77: PrepareStmt(is, ctx, node) is entered and sets the flags of the node.
SetFlagStep(c) ==
    /\ inited
    /\ prep[c].pc = "idle"
    /\ prep' = [ prep EXCEPT ![c] =
                  PrepareCheck(PrepareInvoke(c, "SetFlag", "node", Nil), Nil, PrepareNext("L77")) ]
    /\ StepGlobals /\ UNCHANGED << heap, pc, node, trace, builder, p, logic, res, ret, tgl33, tgl48 >>

\* Lines 78-80.
PreprocessStep(c, err) ==
    /\ prep[c].pc = "L78"
    /\ prep' = [ prep EXCEPT ![c] =
                  PrepareCheck(PrepareInvoke(c, "Preprocess", "node", err), err, PrepareNext("L78")) ]
    /\ StepGlobals /\ UNCHANGED << heap, pc, node, trace, builder, p, logic, res, ret, tgl33, tgl48 >>

\* Lines 81-83: Validate(node, true).
ValidateStep(c, err) ==
    /\ prep[c].pc = "L81"
    /\ prep' = [ prep EXCEPT ![c] =
                  PrepareCheck(PrepareInvoke(c, "Validate", "node, true", err), err, PrepareNext("L81")) ]
    /\ StepGlobals /\ UNCHANGED << heap, pc, node, trace, builder, p, logic, res, ret, tgl33, tgl48 >>

\* --------------------------------------------------------- Optimize

\* A caller enters Optimize(ctx, node, sb, is).
Call(c, kind) ==
    /\ inited
    /\ prep[c].returned /\ prep[c].err = Nil             \* the node must be prepared first
    /\ pc[c] = "idle"
    /\ (\A d \in Calls : pc[d] = "idle") => c = "g1"    \* the calls are alike: g1 is the first
    /\ node' = [ node EXCEPT ![c] = kind ]
    /\ pc' = [ pc EXCEPT ![c] = NextLine("call") ]
    /\ StepGlobals /\ UNCHANGED << prep, heap, trace, builder, p, logic, res, ret, tgl33, tgl48 >>

\* Lines 30-32.
InferTypeStep(c, err) ==
    /\ pc[c] = "L30"
    /\ Invoke(c, Entry("InferType", "node", Nil, err, << >>))
    /\ Check(c, err, NextLine("L30"))
    /\ StepGlobals /\ UNCHANGED << prep, heap, node, builder, p, logic, res, tgl33, tgl48 >>

\* Line 33: the toggle is read only when the statement is a SelectStmt.
BranchLegacy(c) ==
    /\ pc[c] = "L33"
    /\ tgl33' = [ tgl33 EXCEPT ![c] = IF node[c] = "SelectStmt" THEN { UseNewPlanner } ELSE {} ]
    /\ IF NeedLogicOptimize(node[c] = "SelectStmt", UseNewPlanner)
          THEN Goto(c, "L34")
          ELSE Goto(c, NextLine("L34"))
    /\ StepGlobals /\ UNCHANGED << prep, heap, node, trace, builder, p, logic, res, tgl48 >>

\* Lines 34-36.
LogicOptimizeStep(c, err) ==
    /\ pc[c] = "L34"
    /\ Invoke(c, Entry("logicOptimize", "node", Nil, err, << >>))
    /\ Check(c, err, NextLine("L34"))
    /\ StepGlobals /\ UNCHANGED << prep, heap, node, builder, p, logic, res, tgl33, tgl48 >>

\* Lines 38-43: the planBuilder of this call.
NewBuilder(c) ==
    /\ pc[c] = "L38"
    /\ idAllocators' = NewIdAllocator(idAllocators).heap
    /\ colMappers' = MakeColMapper(colMappers).heap
    /\ builder' = [ builder EXCEPT ![c] =
                      [ allocator |-> NewIdAllocator(idAllocators).ref,
                        colMapper |-> MakeColMapper(colMappers).ref,
                        err       |-> Nil ] ]
    /\ Goto(c, NextLine("L38"))
    /\ StepGlobals /\ UNCHANGED << prep, node, trace, p, logic, res, tgl33, tgl48 >>

\* Line 44, inside builder.build: one plan node is built; it takes its id from the
\* builder's allocator and its column reference is entered in the builder's mapper.
BuildNode(c) ==
    /\ pc[c] = "L44"
    /\ Len(p[c].nodes) < MaxNodes
    /\ LET a  == builder[c].allocator
           m  == builder[c].colMapper
           id == allocID(idAllocators[a])
           k  == Len(p[c].nodes) + 1
       IN /\ idAllocators' = [ idAllocators EXCEPT ![a] = id ]
          /\ colMappers' = [ colMappers EXCEPT ![m] = @ \cup { [ expr |-> << c, k >>, ordinal |-> k - 1 ] } ]
          /\ p' = [ p EXCEPT ![c].nodes = Append(@, id) ]
    /\ StepGlobals /\ UNCHANGED << prep, pc, node, trace, builder, logic, res, ret, tgl33, tgl48 >>

\* Lines 44-47: builder.build returns; builder.err is checked.
BuildEnd(c, err, isLogical) ==
    /\ pc[c] = "L44"
    /\ err = Nil => Len(p[c].nodes) >= 1
    /\ err # Nil => ~isLogical
    /\ Invoke(c, Entry("build", "node", Nil, err, << isLogical, Len(p[c].nodes) >>))
    /\ builder' = [ builder EXCEPT ![c].err = err ]
    /\ p' = [ p EXCEPT ![c].ref = BuildResult(err),
                       ![c].logical = isLogical,
                       ![c].conds = IF err = Nil THEN StmtConds ELSE {} ]
    /\ IF BuilderFailed(err) THEN Return(c, Nil, err) ELSE Goto(c, NextLine("L45"))
    /\ StepGlobals /\ UNCHANGED << prep, heap, node, logic, res, tgl33, tgl48 >>

\* Line 48.
BranchNew(c) ==
    /\ pc[c] = "L48"
    /\ tgl48' = [ tgl48 EXCEPT ![c] = { UseNewPlanner } ]
    /\ logic' = [ logic EXCEPT ![c] = IF p[c].logical THEN p[c].ref ELSE Nil ]
    /\ IF TakeNewPipeline(UseNewPlanner, p[c].logical)
          THEN Goto(c, NextLine("L49"))
          ELSE Goto(c, NextLine("L65"))
    /\ StepGlobals /\ UNCHANGED << prep, heap, node, trace, builder, p, res, tgl33 >>

\* Lines 50-53: the root PredicatePushDown returns replaces logic; it may be a new
\* node.  The residual predicates it returns are not kept.
PredicatePushDownStep(c, err, newRoot, residual) ==
    /\ pc[c] = "L50"
    /\ err # Nil => (~newRoot /\ residual = {})
    /\ Invoke(c, Entry("PredicatePushDown", logic[c],
                       IF InitialPredicates = {} THEN Nil ELSE "predicates",
                       err, << newRoot, residual >>))
    /\ logic' = [ logic EXCEPT ![c] = IF err # Nil THEN Nil ELSE IF newRoot THEN "pushed" ELSE @ ]
    /\ p' = [ p EXCEPT ![c].conds =
                IF err # Nil THEN @
                ELSE CondsPassedOn(PushedDown(@, InitialPredicates, residual), residual) ]
    /\ Check(c, err, NextLine("L50"))
    /\ StepGlobals /\ UNCHANGED << prep, heap, node, builder, res, tgl33, tgl48 >>

\* Lines 54-57: the schema passed is that of p.
PruneColumnsStep(c, err) ==
    /\ pc[c] = "L54"
    /\ Invoke(c, Entry("PruneColumnsAndResolveIndices", logic[c], p[c].ref, err, << >>))
    /\ Check(c, err, NextLine("L54"))
    /\ StepGlobals /\ UNCHANGED << prep, heap, node, builder, p, logic, res, tgl33, tgl48 >>

\* Lines 58-61.
Convert2PhysicalPlanStep(c, err) ==
    /\ pc[c] = "L58"
    /\ Invoke(c, Entry("convert2PhysicalPlan", logic[c], Nil, err, << >>))
    /\ res' = [ res EXCEPT ![c] = IF err = Nil THEN "physical" ELSE Nil ]
    /\ Check(c, err, NextLine("L58"))
    /\ StepGlobals /\ UNCHANGED << prep, heap, node, builder, p, logic, tgl33, tgl48 >>

\* Lines 62-63: p becomes what PushLimit returns.
PushLimitStep(c) ==
    /\ pc[c] = "L62"
    /\ Invoke(c, Entry("PushLimit", res[c], Nil, Nil, << >>))
    /\ p' = [ p EXCEPT ![c].ref = "PushLimit(physical)" ]
    /\ Goto(c, NextLine("L62"))
    /\ StepGlobals /\ UNCHANGED << prep, heap, node, builder, logic, res, tgl33, tgl48 >>

\* Line 64: `return p, nil`.
ReturnNewPlan(c) ==
    /\ pc[c] = "L64"
    /\ Return(c, p[c].ref, Nil)
    /\ StepGlobals /\ UNCHANGED << prep, heap, node, trace, builder, p, logic, res, tgl33, tgl48 >>

\* Lines 66-70: Refine works on p in place; p is returned.
RefineStep(c, err) ==
    /\ pc[c] = "L66"
    /\ Invoke(c, Entry("Refine", p[c].ref, Nil, err, << >>))
    /\ IF ErrCheck(err, "L70") = "return" THEN Return(c, Nil, err) ELSE Return(c, p[c].ref, Nil)
    /\ StepGlobals /\ UNCHANGED << prep, heap, node, builder, p, logic, res, tgl33, tgl48 >>

\* What a collaborator answers: no error, or one of the optimizer errors.
Answers == { Nil, "ErrUnSupported", "ErrIllegalReference" }

Next ==
    \/ init
    \/ \E b \in BOOLEAN : SetUseNewPlanner(b)
    \/ \E c \in Calls : SetFlagStep(c)
    \/ \E c \in Calls, err \in Answers : PreprocessStep(c, err)
    \/ \E c \in Calls, err \in Answers : ValidateStep(c, err)
    \/ \E c \in Calls, kind \in NodeKinds : Call(c, kind)
    \/ \E c \in Calls, err \in Answers : InferTypeStep(c, err)
    \/ \E c \in Calls : BranchLegacy(c)
    \/ \E c \in Calls, err \in Answers : LogicOptimizeStep(c, err)
    \/ \E c \in Calls : NewBuilder(c)
    \/ \E c \in Calls : BuildNode(c)
    \/ \E c \in Calls, err \in Answers, isLogical \in BOOLEAN : BuildEnd(c, err, isLogical)
    \/ \E c \in Calls : BranchNew(c)
    \/ \E c \in Calls, err \in Answers, newRoot \in BOOLEAN, residual \in Residuals(InitialPredicates) :
          PredicatePushDownStep(c, err, newRoot, residual)
    \/ \E c \in Calls, err \in Answers : PruneColumnsStep(c, err)
    \/ \E c \in Calls, err \in Answers : Convert2PhysicalPlanStep(c, err)
    \/ \E c \in Calls : PushLimitStep(c)
    \/ \E c \in Calls : ReturnNewPlan(c)
    \/ \E c \in Calls, err \in Answers : RefineStep(c, err)

Spec == Init /\ [][Next]_vars

\* The runs in which no one writes the toggle.
NextStable ==
    \/ init
    \/ \E c \in Calls : SetFlagStep(c)
    \/ \E c \in Calls, err \in Answers : PreprocessStep(c, err)
    \/ \E c \in Calls, err \in Answers : ValidateStep(c, err)
    \/ \E c \in Calls, kind \in NodeKinds : Call(c, kind)
    \/ \E c \in Calls, err \in Answers : InferTypeStep(c, err)
    \/ \E c \in Calls : BranchLegacy(c)
    \/ \E c \in Calls, err \in Answers : LogicOptimizeStep(c, err)
    \/ \E c \in Calls : NewBuilder(c)
    \/ \E c \in Calls : BuildNode(c)
    \/ \E c \in Calls, err \in Answers, isLogical \in BOOLEAN : BuildEnd(c, err, isLogical)
    \/ \E c \in Calls : BranchNew(c)
    \/ \E c \in Calls, err \in Answers, newRoot \in BOOLEAN, residual \in Residuals(InitialPredicates) :
          PredicatePushDownStep(c, err, newRoot, residual)
    \/ \E c \in Calls, err \in Answers : PruneColumnsStep(c, err)
    \/ \E c \in Calls, err \in Answers : Convert2PhysicalPlanStep(c, err)
    \/ \E c \in Calls : PushLimitStep(c)
    \/ \E c \in Calls : ReturnNewPlan(c)
    \/ \E c \in Calls, err \in Answers : RefineStep(c, err)

SpecStable == Init /\ [][NextStable]_vars

\* The steps of the body of Optimize, for the call c.
OptimizeStep(c) ==
    \/ \E err \in Answers : InferTypeStep(c, err)
    \/ BranchLegacy(c)
    \/ \E err \in Answers : LogicOptimizeStep(c, err)
    \/ NewBuilder(c)
    \/ BuildNode(c)
    \/ \E err \in Answers, isLogical \in BOOLEAN : BuildEnd(c, err, isLogical)
    \/ BranchNew(c)
    \/ \E err \in Answers, newRoot \in BOOLEAN, residual \in Residuals(InitialPredicates) :
          PredicatePushDownStep(c, err, newRoot, residual)
    \/ \E err \in Answers : PruneColumnsStep(c, err)
    \/ \E err \in Answers : Convert2PhysicalPlanStep(c, err)
    \/ PushLimitStep(c)
    \/ ReturnNewPlan(c)
    \/ \E err \in Answers : RefineStep(c, err)

\* The runs in which every step a call invokes returns, and the goroutine of a call
\* is not stopped for ever.
SpecFair == Spec /\ \A c \in Calls : WF_vars(OptimizeStep(c))

\* ----------------------------------------------------- reading a trace

Invoked(c, step) == \E i \in 1..Len(trace[c]) : trace[c][i].step = step

Times(c, step) == Cardinality({ i \in 1..Len(trace[c]) : trace[c][i].step = step })

Steps(c) == [ i \in 1..Len(trace[c]) |-> trace[c][i].step ]

AllSucceeded(c) == \A i \in 1..Len(trace[c]) : trace[c][i].err = Nil

NewPipelineSteps ==
    { "PredicatePushDown", "PruneColumnsAndResolveIndices", "convert2PhysicalPlan", "PushLimit" }

RanNewPipeline(c) ==
    \/ Invoked(c, "PredicatePushDown")
    \/ Invoked(c, "PruneColumnsAndResolveIndices")
    \/ Invoked(c, "convert2PhysicalPlan")

IsPrefix(s, t) == Len(s) <= Len(t) /\ \A i \in 1..Len(s) : s[i] = t[i]

\* The calls of the trace that are steps of the new pipeline, in the order made.
RECURSIVE NewPipelinePart(_)
NewPipelinePart(t) ==
    IF t = << >> THEN << >>
    ELSE IF Head(t).step \in NewPipelineSteps
         THEN << Head(t) >> \o NewPipelinePart(Tail(t))
         ELSE NewPipelinePart(Tail(t))

\* ---------------------------------------------------------------- claims

\* C1: first-failure policy.  Whenever a step of a call reports an error, that step
\* is the last one the call makes, and the call has returned a nil plan and that
\* error; a call that returned a plan made only steps that succeeded.
C1_FirstFailure ==
    \A c \in Calls :
        /\ \A i \in 1..Len(trace[c]) :
              trace[c][i].err # Nil =>
                  /\ i = Len(trace[c])
                  /\ pc[c] = "done"
                  /\ ret[c] = [ returned |-> TRUE, plan |-> Nil, err |-> trace[c][i].err ]
        /\ (ret[c].returned /\ ret[c].plan # Nil) => (AllSucceeded(c) /\ ret[c].err = Nil)

\* A call failed in the middle of the new pipeline (at column pruning) and returned.
C1_Witness ==
    \E c \in Calls :
        /\ ret[c].returned /\ ret[c].err # Nil
        /\ trace[c][Len(trace[c])].step = "PruneColumnsAndResolveIndices"

\* C2: the new pipeline is PredicatePushDown(nil), PruneColumnsAndResolveIndices,
\* convert2PhysicalPlan(nil), PushLimit on the plan the enumerator chose, in this
\* order, each at most once and each only after the one before succeeded; the call
\* then returns what PushLimit returned.
C2_NewPipelineOrder ==
    \A c \in Calls :
        LET part == NewPipelinePart(trace[c])
            want == << "PredicatePushDown", "PruneColumnsAndResolveIndices",
                       "convert2PhysicalPlan", "PushLimit" >>
        IN /\ IsPrefix([ i \in 1..Len(part) |-> part[i].step ], want)
           /\ \A i \in 1..Len(part) : i < Len(part) => part[i].err = Nil
           /\ \A i \in 1..Len(part) :
                 /\ part[i].step = "PredicatePushDown" => part[i].arg = Nil
                 /\ part[i].step = "convert2PhysicalPlan" => part[i].arg = Nil
                 /\ part[i].step = "PushLimit" => part[i].on = "physical"
           /\ (ret[c].returned /\ RanNewPipeline(c) /\ ret[c].err = Nil) =>
                 /\ Len(part) = 4
                 /\ trace[c][Len(trace[c])].step = "PushLimit"
                 /\ ret[c].plan = "PushLimit(physical)"

\* A call went through the whole new pipeline and returned.
C2_Witness ==
    \E c \in Calls :
        /\ ret[c].returned /\ ret[c].plan = "PushLimit(physical)"
        /\ Invoked(c, "PruneColumnsAndResolveIndices")

\* C3: with the toggle unchanged during the call, logicOptimize runs exactly on the
\* calls that do not run the new pipeline: no call runs both, no call reaches Refine
\* without logicOptimize, and a call that came to the rewrite passes or to Refine
\* ran logicOptimize if and only if it did not run the new pipeline.
C3_LegacyIffNotNewPipeline ==
    \A c \in Calls :
        /\ ~(Invoked(c, "logicOptimize") /\ RanNewPipeline(c))
        /\ Invoked(c, "Refine") => Invoked(c, "logicOptimize")
        /\ (RanNewPipeline(c) \/ Invoked(c, "Refine")) =>
              (Invoked(c, "logicOptimize") <=> ~RanNewPipeline(c))

\* C4: the two branch decisions of a call rest on one value of the toggle: the value
\* read at line 33 and the value read at line 48 are the same, so a call on a SELECT
\* whose plan is logical runs either logicOptimize and Refine or neither.
C4_BranchSelectedOnce ==
    \A c \in Calls :
        /\ (tgl33[c] # {} /\ tgl48[c] # {}) => tgl33[c] = tgl48[c]
        /\ (node[c] = "SelectStmt" /\ p[c].logical
              /\ (RanNewPipeline(c) \/ Invoked(c, "Refine"))) =>
              /\ Invoked(c, "logicOptimize") <=> Invoked(c, "Refine")
              /\ Invoked(c, "logicOptimize") <=> ~RanNewPipeline(c)

\* C5: Refine and convert2PhysicalPlan are never both invoked in a call; a call
\* that returned a plan invoked exactly one of them; a call that returned a plan
\* after Refine returns the plan the builder produced, Refine having succeeded on
\* it last, with no step of the new pipeline applied.
C5_RefineXorEnumerator ==
    \A c \in Calls :
        /\ ~(Invoked(c, "Refine") /\ Invoked(c, "convert2PhysicalPlan"))
        /\ (ret[c].returned /\ ret[c].plan # Nil) =>
              (Invoked(c, "Refine") \/ Invoked(c, "convert2PhysicalPlan"))
        /\ (ret[c].returned /\ ret[c].plan # Nil /\ Invoked(c, "Refine")) =>
              /\ ret[c].plan = "built"
              /\ p[c].ref = "built"
              /\ trace[c][Len(trace[c])] = Entry("Refine", "built", Nil, Nil, << >>)
              /\ Times(c, "Refine") = 1
              /\ NewPipelinePart(trace[c]) = << >>

\* A call returned the built plan from the legacy branch.
C5_Witness ==
    \E c \in Calls :
        ret[c].returned /\ ret[c].plan = "built" /\ Invoked(c, "Refine")

\* C6: once init has run, each of the six optimizer error codes has an entry in
\* the table of the optimizer class, so that the lookup of the code of any error
\* of the taxonomy succeeds.
C6_EveryCategoryHasCode ==
    inited =>
        /\ "ClassOptimizer" \in DOMAIN ErrClassToMySQLCodes
        /\ \A e \in Errors : ErrCodeOf[e] \in DOMAIN ErrClassToMySQLCodes["ClassOptimizer"]

\* C7 (state part): the builders of two calls never hold the same allocator or the
\* same mapper; the ids a call has drawn are 1, 2, ... and its mapper holds the
\* entries of its own column references only, whatever the other calls did.
C7_OwnBuilderState ==
    \A c \in Calls :
        builder[c].allocator # 0 =>
            /\ \A d \in Calls \ { c } :
                  /\ builder[d].allocator # builder[c].allocator
                  /\ builder[d].colMapper # builder[c].colMapper
            /\ p[c].nodes = [ i \in 1..Len(p[c].nodes) |-> i ]
            /\ idAllocators[builder[c].allocator] = Len(p[c].nodes)
            /\ colMappers[builder[c].colMapper] =
                  { [ expr |-> << c, k >>, ordinal |-> k - 1 ] : k \in 1..Len(p[c].nodes) }

\* C7 (step part): the allocator and the mapper a call gives its builder did not
\* exist before that step, and they start at zero and empty.
C7_FreshBuilderState ==
    \A c \in Calls :
        (builder[c].allocator = 0 /\ builder'[c].allocator # 0) =>
            /\ builder'[c].allocator \notin DOMAIN idAllocators
            /\ builder'[c].colMapper \notin DOMAIN colMappers
            /\ idAllocators'[builder'[c].allocator] = 0
            /\ colMappers'[builder'[c].colMapper] = {}

\* C7: every call creates its own new allocator and its own new, empty mapper
\* before building, no two calls use the same instance, and so the ids and the
\* mapping entries of a call do not depend on the other calls.
C7_CallScopedBuilderState == []C7_OwnBuilderState /\ [][C7_FreshBuilderState]_vars

\* Two calls are building at the same time, each having drawn an id.
C7_Witness ==
    \E c, d \in Calls :
        /\ c # d
        /\ pc[c] = "L44" /\ pc[d] = "L44"
        /\ Len(p[c].nodes) >= 1 /\ Len(p[d].nodes) >= 1

\* C8: type inference is the first step of every call: a call past line 30 has
\* invoked InferType on the statement first and only once, and when it failed
\* nothing else was invoked and no builder was made.
C8_InferTypeFirst ==
    \A c \in Calls :
        /\ pc[c] \notin { "idle", "L30" } =>
              /\ Len(trace[c]) >= 1
              /\ trace[c][1].step = "InferType" /\ trace[c][1].on = "node"
        /\ Times(c, "InferType") <= 1
        /\ (trace[c] # << >> /\ trace[c][1].err # Nil) =>
              (Len(trace[c]) = 1 /\ ret[c].returned /\ ret[c].plan = Nil)
        /\ builder[c].allocator # 0 =>
              (trace[c] # << >> /\ trace[c][1].step = "InferType" /\ trace[c][1].err = Nil)

\* A call inferred types, then ran logicOptimize, then built.
C8_Witness ==
    \E c \in Calls :
        Len(trace[c]) >= 3 /\ trace[c][1].step = "InferType" /\ trace[c][3].step = "build"

\* C9: the builder is invoked at most once in a call, and exactly once in a call
\* that got past type inference and logicOptimize; it runs after logicOptimize
\* and before PredicatePushDown and Refine, which run only when the builder
\* recorded no error.
C9_BuildRegardlessOfBranch ==
    \A c \in Calls :
        LET n == Len(trace[c])
            at(step) == CHOOSE i \in 1..n : trace[c][i].step = step
        IN /\ Times(c, "build") <= 1
           /\ (pc[c] = "done" /\ trace[c][1].err = Nil
                 /\ (Invoked(c, "logicOptimize") => trace[c][at("logicOptimize")].err = Nil)) =>
                 Times(c, "build") = 1
           /\ (Invoked(c, "build") /\ Invoked(c, "logicOptimize")) =>
                 at("logicOptimize") < at("build")
           /\ \A step \in NewPipelineSteps \cup { "Refine" } :
                 Invoked(c, step) =>
                     /\ Invoked(c, "build")
                     /\ at("build") < at(step)
                     /\ trace[c][at("build")].err = Nil
           /\ (Invoked(c, "build") /\ trace[c][at("build")].err # Nil) =>
                 (at("build") = n /\ ret[c].returned /\ ret[c].plan = Nil)

\* A call on a SELECT under the new planner built without logicOptimize and went
\* on to predicate pushdown.
C9_Witness ==
    \E c \in Calls :
        /\ node[c] = "SelectStmt"
        /\ ~Invoked(c, "logicOptimize")
        /\ Invoked(c, "build") /\ Invoked(c, "PredicatePushDown")

\* The collaborators answered two calls alike: wherever both made the same step,
\* the step answered the same.
SameAnswers(a, b) ==
    \A i \in 1..Len(trace[a]) :
        (i <= Len(trace[b]) /\ trace[a][i].step = trace[b][i].step) =>
            (trace[a][i].err = trace[b][i].err /\ trace[a][i].out = trace[b][i].out)

\* C10: two calls on the same kind of statement that read the same toggle value
\* and whose collaborators answered alike made the same steps and returned the same
\* outcome: the same plan with the same node ids, or the same error.
C10_Determinism ==
    \A a, b \in Calls :
        (/\ a # b
         /\ ret[a].returned /\ ret[b].returned
         /\ node[a] = node[b]
         /\ tgl33[a] = tgl33[b] /\ tgl48[a] = tgl48[b]
         /\ SameAnswers(a, b)) =>
            /\ Steps(a) = Steps(b)
            /\ ret[a] = ret[b]
            /\ p[a] = p[b]

\* Two calls with the same inputs both went through the new pipeline and returned.
C10_Witness ==
    \E a, b \in Calls :
        /\ a # b
        /\ ret[a].returned /\ ret[b].returned
        /\ node[a] = node[b] /\ tgl33[a] = tgl33[b] /\ tgl48[a] = tgl48[b]
        /\ SameAnswers(a, b)
        /\ ret[a].plan = "PushLimit(physical)"

\* C11: column pruning is invoked on the root PredicatePushDown returned, and the
\* schema passed to it is the schema of that same root, also when that root is not
\* the root the builder produced.
C11_PruneAgainstOwnSchema ==
    \A c \in Calls :
        \A i \in 1..Len(trace[c]) :
            trace[c][i].step = "PruneColumnsAndResolveIndices" =>
                /\ i > 1 /\ trace[c][i - 1].step = "PredicatePushDown"
                /\ trace[c][i].on = (IF trace[c][i - 1].out[1] THEN "pushed" ELSE trace[c][i - 1].on)
                /\ trace[c][i].arg = trace[c][i].on

C13_TableReadOnlyAfterInit ==
    /\ [](inited => ErrClassToMySQLCodes["ClassOptimizer"] = mySQLErrCodes)
    /\ [][ErrClassToMySQLCodes' # ErrClassToMySQLCodes =>
            (~inited /\ inited' /\ \A c \in Calls : pc[c] = "idle" /\ trace[c] = << >>)]_vars

\* Two calls have run to their return with the table as init left it.
C13_Witness ==
    /\ inited
    /\ \A c \in Calls : ret[c].returned /\ trace[c] # << >>
    /\ ErrClassToMySQLCodes["ClassOptimizer"] = mySQLErrCodes

\* The place of a position of a call in the text of Optimize.
LineOf ==
    [ idle |-> 28, L30 |-> 30, L33 |-> 33, L34 |-> 34, L38 |-> 38, L44 |-> 44, L48 |-> 48,
      L50  |-> 50, L54 |-> 54, L58 |-> 58, L62 |-> 62, L64 |-> 64, L66 |-> 66, done |-> 71 ]

\* C14: every call completes.  A call that was made returns; it invokes no step
\* twice and never goes back to an earlier line; and what it returns is either a
\* plan with no error or an error with no plan.
C14_EveryCallCompletes ==
    /\ [](\A c \in Calls :
            /\ \A i, j \in 1..Len(trace[c]) : trace[c][i].step = trace[c][j].step => i = j
            /\ ret[c].returned => ((ret[c].plan # Nil) # (ret[c].err # Nil)))
    /\ [][\A c \in Calls : LineOf[pc'[c]] >= LineOf[pc[c]]]_vars
    /\ \A c \in Calls : (pc[c] # "idle") ~> (pc[c] = "done" /\ ret[c].returned)

\* One call returned a plan after the four steps of the new pipeline, the other
\* returned the error of its Refine.
C14_Witness ==
    \E c, d \in Calls :
        /\ ret[c].returned /\ ret[c].plan # Nil /\ ret[c].err = Nil
        /\ Invoked(c, "PushLimit")
        /\ ret[d].returned /\ ret[d].plan = Nil /\ ret[d].err # Nil
        /\ Invoked(d, "Refine")

\* The steps PrepareStmt has made, in the order made.
PrepareSteps(c) == [ i \in 1..Len(prep[c].steps) |-> prep[c].steps[i].step ]

\* C15: PrepareStmt sets the flags, then runs Preprocess, then Validate.  It returns
\* nil only after both answered nil; when Preprocess fails it returns that error and
\* Validate is not run; when Validate fails it returns that error.
C15_PrepareStmtOrder ==
    \A c \in Calls :
        /\ IsPrefix(PrepareSteps(c), << "SetFlag", "Preprocess", "Validate" >>)
        /\ \A i \in 1..Len(prep[c].steps) :
              prep[c].steps[i].err # Nil =>
                  /\ i = Len(prep[c].steps)
                  /\ prep[c].returned /\ prep[c].err = prep[c].steps[i].err
        /\ (prep[c].returned /\ prep[c].err = Nil) =>
              /\ PrepareSteps(c) = << "SetFlag", "Preprocess", "Validate" >>
              /\ \A i \in 1..3 : prep[c].steps[i].err = Nil
        /\ prep[c].returned =>
              \/ prep[c].err = Nil
              \/ prep[c].steps[Len(prep[c].steps)].err = prep[c].err

\* One statement was prepared with success; the Preprocess of another failed, and
\* PrepareStmt returned its error after two steps.
C15_Witness ==
    \E c, d \in Calls :
        /\ prep[c].returned /\ prep[c].err = Nil /\ Len(prep[c].steps) = 3
        /\ prep[d].returned /\ prep[d].err # Nil
        /\ PrepareSteps(d) = << "SetFlag", "Preprocess" >>
====
